---- MODULE Spec2Model ----
(***************************************************************************)
(* A model of femto's Cell (src/femto/Cell.py) and of the parameter        *)
(* classes it is configured with (src/femto/Parameters.py).                 *)
(*                                                                         *)
(* Python values are records [kind, scan, elems]: kind is the name of the  *)
(* value's type, scan the scan attribute of a Waveguide or Marker, elems   *)
(* the elements of a list or of a TrenchColumn.  Times are in milliseconds. *)
(***************************************************************************)
EXTENDS Integers, Sequences, FiniteSets, TLC

VARIABLES
    waveguides,         \* Cell.waveguides
    markers,            \* Cell.markers
    trenches,           \* Cell.trenches
    trench_cols,        \* Cell.trench_cols
    instructions,       \* PGMCompiler._instructions, the instruction buffer
    total_dwell_time,   \* PGMCompiler._total_dwell_time
    filename,           \* PGMCompiler.filename, as its '.'-separated pieces
    param,              \* the GcodeParameters object the caller holds
    wgparam,            \* the WaveguideParameters object the caller holds
    last,               \* the last call: its name, arguments, raised error, output
    points,             \* the point array handed to _shutter_mask
    masked              \* what _shutter_mask returned

vars == <<waveguides, markers, trenches, trench_cols, instructions,
          total_dwell_time, filename, param, wgparam, last,
          points, masked>>

-----------------------------------------------------------------------------
(* Bounds of the model *)

\* most values (objects and lists, nested ones included) the Cell holds
MaxSize == 3
\* longest list or TrenchColumn handed to Cell.append
MaxBunch == 2
\* most instructions a failed program leaves in the instruction buffer
MaxLeftover == 8
\* longest point array handed to _shutter_mask
MaxPoints == 2

-----------------------------------------------------------------------------
(* Python values *)

\* a number: its Python type and its value
Number(type, val) == [type |-> type, val |-> val]

Obj(kind, scan, elems) == [kind |-> kind, scan |-> scan, elems |-> elems]

NoObj == Obj("NoneType", Number("int", 0), <<>>)
Num == Obj("int", Number("int", 0), <<>>)
MarkerObj == Obj("Marker", Number("int", 1), <<>>)
TrenchObj == Obj("Trench", Number("int", 0), <<>>)
WaveguideObj(p) == Obj("Waveguide", p.scan, <<>>)
ListObj(elems) == Obj("list", Number("int", 0), elems)
TrenchColumnObj(elems) == Obj("TrenchColumn", Number("int", 0), elems)

\* isinstance(obj, cls): the classes the Cell tells apart are unrelated types
isinstance(obj, cls) == obj.kind = cls

\* raised exceptions: the exception type, what the message names (a type, a
\* collection, a parameter), and the value and the limit the message gives
Error(type, given, value, limit) ==
    [type |-> type, given |-> given, value |-> value, limit |-> limit]

NoError == Error("none", "", 0, 0)

SeqsUpTo(S, n) == UNION {[1..k -> S] : k \in 0..n}

-----------------------------------------------------------------------------
(* Cell.append *)

RECURSIVE append(_, _)
RECURSIVE append_each(_, _, _)

\* the loop `for trc in obj: self.append(trc)`; an exception ends it
append_each(self, elems, i) ==
    IF i > Len(elems) THEN self
    ELSE LET r == append(self, elems[i])
         IN  IF r.err # NoError THEN r ELSE append_each(r, elems, i + 1)

\* Cell.append without the check of a list's elements: any list is a bunch
append_any_list(self, obj) ==
    IF isinstance(obj, "Marker")
    THEN [self EXCEPT !.markers = Append(@, obj)]
    ELSE IF isinstance(obj, "Waveguide") \/ isinstance(obj, "list")
    THEN [self EXCEPT !.waveguides = Append(@, obj)]
    ELSE IF isinstance(obj, "Trench")
    THEN [self EXCEPT !.trenches = Append(@, obj)]
    ELSE IF isinstance(obj, "TrenchColumn")
    THEN LET r == append_each(self, obj.elems, 1)
         IN  IF r.err # NoError THEN r
             ELSE [r EXCEPT !.trench_cols = Append(@, obj)]
    ELSE [self EXCEPT !.err = Error("TypeError", obj.kind, 0, 0)]

\* self is the record of the four collections and of the raised error
append(self, obj) ==
    IF isinstance(obj, "Marker")
    THEN [self EXCEPT !.markers = Append(@, obj)]
    ELSE IF \/ isinstance(obj, "Waveguide")
            \/ /\ isinstance(obj, "list")
               /\ \A i \in 1..Len(obj.elems) : isinstance(obj.elems[i], "Waveguide")
    THEN [self EXCEPT !.waveguides = Append(@, obj)]
    ELSE IF isinstance(obj, "Trench")
    THEN [self EXCEPT !.trenches = Append(@, obj)]
    ELSE IF isinstance(obj, "TrenchColumn")
    THEN LET r == append_each(self, obj.elems, 1)
         IN  IF r.err # NoError THEN r
             ELSE [r EXCEPT !.trench_cols = Append(@, obj)]
    ELSE [self EXCEPT !.err = Error("TypeError", obj.kind, 0, 0)]

-----------------------------------------------------------------------------
(* femto.helpers *)

\* listcast(x): a list stays as it is, any other value becomes a one-element list
listcast(x) == IF x.kind = "list" THEN x.elems ELSE <<x>>

Max(S) == CHOOSE m \in S : \A n \in S : n <= m

\* nest_level(lst): 0 for a value that is no list, 1 for an empty list,
\* otherwise 1 + the deepest element
RECURSIVE nest_level(_)
nest_level(lst) ==
    IF lst.kind # "list" THEN 0
    ELSE IF lst.elems = <<>> THEN 1
    ELSE 1 + Max({nest_level(lst.elems[i]) : i \in 1..Len(lst.elems)})

-----------------------------------------------------------------------------
(* PGMCompiler: the instruction emitter the Cell inherits *)

Instr(op, n, who) == [op |-> op, n |-> n, who |-> who]

Emit(self, ins) == [self EXCEPT !.instructions = Append(@, ins)]

header(self) == Emit(self, Instr("HEADER", 0, <<>>))

dwell(self, t) ==
    [Emit(self, Instr("DWELL", t, <<>>)) EXCEPT !.total_dwell_time = @ + t]

homing(self) == Emit(self, Instr("HOME", 0, <<>>))

\* entering `with self.repeat(num)`: num is validated, then the block opens
repeat_enter(self, num) ==
    IF num.type # "int" \/ num.val <= 0
    THEN [self EXCEPT !.err = Error("ValueError", "repeat", num.val, 1)]
    ELSE Emit(self, Instr("REPEAT_BEGIN", num.val, <<num.type>>))

\* leaving the `with` block
repeat_exit(self) == Emit(self, Instr("REPEAT_END", 0, <<>>))

\* the sampled path of an object: beam on for the first point, off for the second
Point(x, y, z, f, s) == <<x, y, z, f, s>>

path_points(obj) == <<Point(0, 0, 0, 20, 1), Point(1, 0, 0, 20, 0)>>

\* obj.wtime, the writing time of an object
wtime(obj) == 2000

\* write(points): a shutter instruction of duration tshutter at every change of
\* the shutter state, then a move to the point
RECURSIVE write_from(_, _, _, _)
write_from(self, obj, i, shutter) ==
    LET pts == path_points(obj)
    IN  IF i > Len(pts) THEN self
        ELSE LET s == pts[i][5]
                 a == IF s = shutter THEN self
                      ELSE [Emit(self, Instr(IF s = 1 THEN "SHUTTER_ON" ELSE "SHUTTER_OFF",
                                            self.tshutter, <<>>))
                              EXCEPT !.total_dwell_time = @ + self.tshutter]
             IN  write_from(Emit(a, Instr("MOVE", i, <<obj.kind, obj.scan>>)),
                            obj, i + 1, s)

write(self, obj) == write_from(self, obj, 1, 0)

-----------------------------------------------------------------------------
(* Cell._wg_pgm, Cell._mk_pgm, Cell._tc_pgm, Cell.pgm *)

\* `for wg in listcast(bunch)`: the writing time is summed, the points written
RECURSIVE object_loop(_, _, _)
object_loop(self, bunch, j) ==
    IF j > Len(bunch) THEN self
    ELSE object_loop(write([self EXCEPT !.fab_time = @ + wtime(bunch[j])], bunch[j]),
                     bunch, j + 1)

\* `for bunch in ...: with self.repeat(listcast(bunch)[0].scan): ...`
RECURSIVE bunch_loop(_, _, _)
bunch_loop(self, coll, i) ==
    IF i > Len(coll) THEN self
    ELSE LET bunch == listcast(coll[i])
         IN  IF bunch = <<>>
             THEN [self EXCEPT !.err = Error("IndexError", "list", 0, 0)]
             ELSE IF bunch[1].kind \notin {"Waveguide", "Marker"}
             THEN [self EXCEPT !.err = Error("AttributeError", bunch[1].kind, 0, 0)]
             ELSE LET r == repeat_enter(self, bunch[1].scan)
                  IN  IF r.err # NoError THEN r
                      ELSE bunch_loop(repeat_exit(object_loop(r, bunch, 1)), coll, i + 1)

File(name, text) == [exists |-> TRUE, name |-> name, text |-> text]

NoFile == [exists |-> FALSE, name |-> <<>>, text |-> <<>>]

Report(what, time) == [what |-> what, time |-> time]

\* open(name, 'w').write(''.join(self._instructions)), the report when verbose,
\* then the buffer and the dwell total are cleared
finish(self, suffix, what, verbose) ==
    LET name == <<self.filename[1], suffix>>
    IN  [self EXCEPT
            !.written[suffix] = File(name, self.instructions),
            !.reported = IF verbose
                         THEN Append(@, Report(what, self.fab_time + self.total_dwell_time))
                         ELSE @,
            !.instructions = <<>>,
            !.total_dwell_time = 0]

\* the body of a program after the checks: the file name, header, dwell,
\* bunches, homing, output
emit_program(self, coll, suffix, what, verbose) ==
    LET s0 == [self EXCEPT !.fab_time = 0, !.filename = <<@[1]>>]
        s1 == bunch_loop(dwell(header(s0), 1000), coll, 1)
    IN  IF s1.err # NoError THEN s1
        ELSE finish(homing(s1), suffix, what, verbose)

\* _wg_pgm without the early return on an empty collection
wg_pgm_no_skip(self, verbose) ==
    IF nest_level(ListObj(self.waveguides)) > 2
    THEN [self EXCEPT !.err = Error("ValueError", "waveguide",
                                    nest_level(ListObj(self.waveguides)), 2)]
    ELSE emit_program(self, self.waveguides, "_WG.pgm", "optical device", verbose)

wg_pgm(self, verbose) ==
    IF nest_level(ListObj(self.waveguides)) > 2
    THEN [self EXCEPT !.err = Error("ValueError", "waveguide",
                                    nest_level(ListObj(self.waveguides)), 2)]
    ELSE IF self.waveguides = <<>> THEN self
    ELSE emit_program(self, self.waveguides, "_WG.pgm", "optical device", verbose)

mk_pgm(self, verbose) ==
    IF nest_level(ListObj(self.markers)) > 1
    THEN [self EXCEPT !.err = Error("ValueError", "markers",
                                    nest_level(ListObj(self.markers)), 1)]
    ELSE IF self.markers = <<>> THEN self
    ELSE emit_program(self, self.markers, "_MARKERS.pgm", "markers", verbose)

\* PGMTrench(param, trench_cols).write(): a writer of its own, with a buffer of
\* its own, that writes nothing for no column
PGMTrench_write(self) ==
    IF self.trench_cols = <<>> THEN self
    ELSE [self EXCEPT !.written["_TRENCH"] =
            File(<<self.filename[1], "_TRENCH">>,
                 [i \in 1..Len(self.trench_cols) |-> Instr("FARCALL", i, <<>>)])]

tc_pgm(self, verbose) ==
    LET r == PGMTrench_write(self)
    IN  IF verbose
        THEN [r EXCEPT !.reported =
                Append(@, Report("isolation trenches", 3000 * Len(self.trench_cols)))]
        ELSE r

pgm(self, verbose, waveguide, marker, trench) ==
    LET a == IF waveguide THEN wg_pgm(self, verbose) ELSE self
        b == IF a.err # NoError THEN a
             ELSE IF marker THEN mk_pgm(a, verbose) ELSE a
    IN  IF b.err # NoError THEN b
        ELSE IF trench THEN tc_pgm(b, verbose) ELSE b

-----------------------------------------------------------------------------
(* GcodeParameters and WaveguideParameters *)

\* a Python string is the sequence of its characters
LowerCase == <<"a", "b", "c", "d", "e", "f", "i", "l", "m", "n", "o", "p", "r">>
UpperCase == <<"A", "B", "C", "D", "E", "F", "I", "L", "M", "N", "O", "P", "R">>

upper_char(c) ==
    IF \E i \in 1..Len(LowerCase) : LowerCase[i] = c
    THEN UpperCase[CHOOSE i \in 1..Len(LowerCase) : LowerCase[i] = c]
    ELSE c

\* str.upper()
upper(str) == [i \in 1..Len(str) |-> upper_char(str[i])]

CAPABLE == <<"C", "A", "P", "A", "B", "L", "E">>
DIAMOND == <<"D", "I", "A", "M", "O", "N", "D">>
FIRE == <<"F", "I", "R", "E">>

\* an optional value: <<v>>, or <<>> for None
Some(v) == <<v>>
None == <<>>

\* set_tshutter without the check of the lab name
set_tshutter_unchecked(self) ==
    IF upper(self.lab) = CAPABLE
    THEN [err |-> NoError, value |-> 0]
    ELSE [err |-> NoError, value |-> 5]

\* set_tshutter(): the error, or the settling time of the lab
set_tshutter(self) ==
    IF upper(self.lab) \notin {CAPABLE, DIAMOND, FIRE}
    THEN [err |-> Error("ValueError", "lab", 0, 0), value |-> 0]
    ELSE IF upper(self.lab) = CAPABLE
    THEN [err |-> NoError, value |-> 0]
    ELSE [err |-> NoError, value |-> 5]

\* antiwarp_management(opt): the error, or the name of the warp function (the
\* zero function, or the fitted surface read from disk)
antiwarp_management(self, opt) ==
    IF opt
    THEN IF \E i \in 1..2 : self.samplesize[i] = None
         THEN [err |-> Error("ValueError", "samplesize", 0, 0), value |-> "none"]
         ELSE [err |-> NoError, value |-> "fitted"]
    ELSE [err |-> NoError, value |-> "zero"]

NoParam ==
    [made |-> FALSE, filename |-> <<>>, samplesize |-> <<None, None>>, lab |-> <<>>,
     warp_flag |-> FALSE, fwarp |-> "none", tshutter |-> 0, long_pause |-> 0,
     short_pause |-> 0, output_digits |-> 0, angle |-> 0, err |-> NoError]

\* GcodeParameters.__init__: the object, or the error that ended the construction
GcodeParameters(fname, samplesize, lab, warp_flag, angle, output_digits) ==
    LET s0 == [NoParam EXCEPT !.filename = fname, !.samplesize = samplesize,
                              !.lab = lab, !.warp_flag = warp_flag]
        w  == antiwarp_management(s0, warp_flag)
        s1 == [s0 EXCEPT !.fwarp = w.value]
        t  == set_tshutter(s1)
    IN  IF w.err # NoError THEN [NoParam EXCEPT !.err = w.err]
        ELSE IF t.err # NoError THEN [NoParam EXCEPT !.err = t.err]
        ELSE [s1 EXCEPT !.made = TRUE, !.tshutter = t.value, !.long_pause = 500,
                        !.short_pause = 250, !.output_digits = output_digits,
                        !.angle = angle]

NoWgParam == [made |-> FALSE, scan |-> Number("int", 0), speed |-> 0, err |-> NoError]

\* WaveguideParameters.__init__ without the check of the type of scan
WaveguideParameters_unchecked(scan, speed) ==
    [NoWgParam EXCEPT !.made = TRUE, !.scan = scan, !.speed = speed]

\* WaveguideParameters.__init__
WaveguideParameters(scan, speed) ==
    IF scan.type # "int"
    THEN [NoWgParam EXCEPT !.err = Error("ValueError", "scan", 0, 0)]
    ELSE [NoWgParam EXCEPT !.made = TRUE, !.scan = scan, !.speed = speed]

-----------------------------------------------------------------------------
(* Cell._shutter_mask *)

\* a float: a finite value, or NaN
Float(v) == [nan |-> FALSE, v |-> v]
NaN == [nan |-> TRUE, v |-> 0]

\* points.T: the k-th column of the point array
column(pts, k) == [i \in 1..Len(pts) |-> pts[i][k]]

\* np.where(cond, a, nan), element by element
where_eq(s, shutter, a) ==
    [i \in 1..Len(a) |-> IF s[i] = Float(shutter) THEN a[i] ELSE NaN]

NoMask == [err |-> NoError, x |-> <<>>, y |-> <<>>, z |-> <<>>]

\* _shutter_mask with z returned as it came
shutter_mask_z_kept(pts, shutter) ==
    IF shutter \notin {0, 1}
    THEN [NoMask EXCEPT !.err = Error("ValueError", "shutter", shutter, 1)]
    ELSE [NoMask EXCEPT !.x = column(pts, 1),
                        !.y = where_eq(column(pts, 5), shutter, column(pts, 2)),
                        !.z = column(pts, 3)]

shutter_mask(pts, shutter) ==
    IF shutter \notin {0, 1}
    THEN [NoMask EXCEPT !.err = Error("ValueError", "shutter", shutter, 1)]
    ELSE [NoMask EXCEPT !.x = column(pts, 1),
                        !.y = where_eq(column(pts, 5), shutter, column(pts, 2)),
                        !.z = where_eq(column(pts, 5), shutter, column(pts, 3))]

-----------------------------------------------------------------------------
(* The calls *)

Suffixes == {"_WG.pgm", "_MARKERS.pgm", "_TRENCH"}

NoFiles == [s \in Suffixes |-> NoFile]

Call(op, obj, flags, err, reported, written) ==
    [op |-> op, obj |-> obj, flags |-> flags, err |-> err, reported |-> reported,
     written |-> written]

NoCall == Call("none", NoObj, <<>>, NoError, <<>>, NoFiles)

\* the Cell object, as the record the methods work on; fab_time is the local
\* time total of a program, reported and written are the output of the call
Self ==
    [waveguides |-> waveguides, markers |-> markers, trenches |-> trenches,
     trench_cols |-> trench_cols, instructions |-> instructions,
     total_dwell_time |-> total_dwell_time, filename |-> filename,
     tshutter |-> param.tshutter, fab_time |-> 0, reported |-> <<>>,
     written |-> NoFiles, err |-> NoError]

\* the Cell object after a call
Becomes(r) ==
    /\ waveguides' = r.waveguides
    /\ markers' = r.markers
    /\ trenches' = r.trenches
    /\ trench_cols' = r.trench_cols
    /\ instructions' = r.instructions
    /\ total_dwell_time' = r.total_dwell_time
    /\ filename' = r.filename

RECURSIVE Weight(_)
RECURSIVE SeqWeight(_)
Weight(obj) == 1 + SeqWeight(obj.elems)
SeqWeight(seq) == IF seq = <<>> THEN 0 ELSE Weight(Head(seq)) + SeqWeight(Tail(seq))

Fits(r) ==
    /\ SeqWeight(r.waveguides) + SeqWeight(r.markers) + SeqWeight(r.trenches)
         + SeqWeight(r.trench_cols) <= MaxSize
    /\ Len(r.instructions) <= MaxLeftover

LabInputs ==
    {CAPABLE, DIAMOND, FIRE,
     <<"c", "a", "p", "a", "b", "l", "e">>, <<"C", "a", "p", "a", "b", "l", "e">>,
     <<"d", "i", "a", "m", "o", "n", "d">>, <<"D", "i", "a", "m", "o", "n", "d">>,
     <<"f", "i", "r", "e">>, <<"F", "i", "r", "e">>,
     <<"U", "D", "I", "N", "E">>, <<"C", "A", "P", "A", "B", "L">>,
     <<"F", "I", "R", "E", "2">>, <<>>}

SampleSizeInputs == {<<None, None>>, <<Some(25), None>>, <<Some(25), Some(25)>>}

ScanInputs ==
    {Number("int", -1), Number("int", 0), Number("int", 1), Number("float", 2)}

\* the flags of the compilation calls: the reports are always asked for, and
\* the trench program is always compiled
VerboseInputs == {TRUE}
TrenchInputs == {TRUE}

ExampleFilename == <<"testMarker", "pgm">>

\* the waveguides the caller can build: one for each WaveguideParameters object
\* that can be constructed
Built ==
    {WaveguideObj(p) : p \in {q \in {WaveguideParameters(scan, 20) : scan \in ScanInputs} :
                                q.made}}

Wg1 == WaveguideObj(WaveguideParameters(Number("int", 1), 20))

\* the values handed to Cell.append before a compilation
PathInputs ==
    Built \cup {MarkerObj, Num}
    \cup {ListObj(e) : e \in SeqsUpTo(Built, MaxBunch)}
    \cup {TrenchColumnObj(<<>>), TrenchColumnObj(<<TrenchObj>>)}

\* the values (good and bad) handed to Cell.append
AppendInputs ==
    Built \cup {Num, MarkerObj, TrenchObj}
    \cup {ListObj(e) : e \in SeqsUpTo({Wg1, Num, ListObj(<<>>)}, MaxBunch)}
    \cup {TrenchColumnObj(e) : e \in SeqsUpTo({TrenchObj, Num}, MaxBunch)}

\* Cell(param): Cell.__init__ after PGMCompiler.__init__
InitCell ==
    /\ param \in {GcodeParameters(ExampleFilename, <<Some(25), Some(25)>>, lab, FALSE, 0, 6) :
                    lab \in {DIAMOND}}
    /\ waveguides = <<>>
    /\ markers = <<>>
    /\ trench_cols = <<>>
    /\ trenches = <<>>
    /\ instructions = <<>>
    /\ total_dwell_time = 0
    /\ filename = param.filename
    /\ wgparam = NoWgParam
    /\ last = NoCall

Init ==
    /\ InitCell
    /\ points = <<>>
    /\ masked = NoMask

\* cell.append(obj), for obj in S
AppendCall(S) ==
    \E obj \in S :
        LET r == append(Self, obj)
        IN  /\ Fits(r)
            /\ Becomes(r)
            /\ last' = Call("append", obj, <<>>, r.err, <<>>, NoFiles)
            /\ UNCHANGED <<param, wgparam, points, masked>>

\* the caller appends to a list it has handed to the Cell: the Cell holds the
\* list itself, not a copy
BunchAppend ==
    \E i \in 1..Len(waveguides), v \in Built \cup {ListObj(<<>>)} :
        /\ waveguides[i].kind = "list"
        /\ Fits([Self EXCEPT !.waveguides[i].elems = Append(@, v)])
        /\ waveguides' = [waveguides EXCEPT ![i].elems = Append(@, v)]
        /\ last' = Call("bunch.append", v, <<i>>, NoError, <<>>, NoFiles)
        /\ UNCHANGED <<markers, trenches, trench_cols, instructions, total_dwell_time,
                       filename, param, wgparam, points, masked>>

\* the caller groups markers in the public list cell.markers
MarkersAppend ==
    \E v \in {ListObj(<<MarkerObj>>)} :
        /\ Fits([Self EXCEPT !.markers = Append(@, v)])
        /\ markers' = Append(markers, v)
        /\ last' = Call("markers.append", v, <<>>, NoError, <<>>, NoFiles)
        /\ UNCHANGED <<waveguides, trenches, trench_cols, instructions, total_dwell_time,
                       filename, param, wgparam, points, masked>>

\* cell._wg_pgm(verbose)
WgPgm ==
    \E verbose \in VerboseInputs :
        LET r == wg_pgm(Self, verbose)
        IN  /\ Fits(r)
            /\ Becomes(r)
            /\ last' = Call("_wg_pgm", NoObj, <<verbose>>, r.err, r.reported, r.written)
            /\ UNCHANGED <<param, wgparam, points, masked>>

\* cell._mk_pgm(verbose)
MkPgm ==
    \E verbose \in VerboseInputs :
        LET r == mk_pgm(Self, verbose)
        IN  /\ Fits(r)
            /\ Becomes(r)
            /\ last' = Call("_mk_pgm", NoObj, <<verbose>>, r.err, r.reported, r.written)
            /\ UNCHANGED <<param, wgparam, points, masked>>

\* cell.pgm(verbose, waveguide, marker, trench)
Pgm ==
    \E verbose \in VerboseInputs, waveguide, marker \in BOOLEAN, trench \in TrenchInputs :
        LET r == pgm(Self, verbose, waveguide, marker, trench)
        IN  /\ Fits(r)
            /\ Becomes(r)
            /\ last' = Call("pgm", NoObj, <<verbose, waveguide, marker, trench>>,
                            r.err, r.reported, r.written)
            /\ UNCHANGED <<param, wgparam, points, masked>>

Next ==
    \/ AppendCall(PathInputs)
    \/ BunchAppend
    \/ MarkersAppend
    \/ WgPgm
    \/ MkPgm
    \/ Pgm

Spec == Init /\ [][Next]_vars

\* insertion alone, with every kind of value
NextInsert == AppendCall(AppendInputs)

SpecInsert == Init /\ [][NextInsert]_vars

-----------------------------------------------------------------------------
(* The parameter objects on their own *)

InitIdle ==
    /\ waveguides = <<>>
    /\ markers = <<>>
    /\ trench_cols = <<>>
    /\ trenches = <<>>
    /\ instructions = <<>>
    /\ total_dwell_time = 0
    /\ filename = <<>>
    /\ last = NoCall

InitParams ==
    /\ InitIdle
    /\ param = NoParam
    /\ wgparam = NoWgParam
    /\ points = <<>>
    /\ masked = NoMask

\* the caller builds GcodeParameters(...) and keeps the object; a constructor
\* that raises leaves the caller with the object it had
NewGcodeParameters ==
    \E lab \in LabInputs, warp_flag \in BOOLEAN, samplesize \in SampleSizeInputs :
        LET p == GcodeParameters(ExampleFilename, samplesize, lab, warp_flag, 0, 6)
        IN  /\ param' = IF p.err = NoError THEN p ELSE param
            /\ last' = Call("GcodeParameters", NoObj, <<lab, warp_flag, samplesize>>,
                            p.err, <<>>, NoFiles)
            /\ UNCHANGED <<waveguides, markers, trenches, trench_cols, instructions,
                           total_dwell_time, filename, wgparam, points, masked>>

\* the caller builds WaveguideParameters(scan, speed) and keeps the object
NewWaveguideParameters ==
    \E scan \in ScanInputs :
        LET p == WaveguideParameters(scan, 20)
        IN  /\ wgparam' = IF p.err = NoError THEN p ELSE wgparam
            /\ last' = Call("WaveguideParameters", NoObj, <<scan>>, p.err, <<>>, NoFiles)
            /\ UNCHANGED <<waveguides, markers, trenches, trench_cols, instructions,
                           total_dwell_time, filename, param, points, masked>>

NextParams ==
    \/ NewGcodeParameters
    \/ NewWaveguideParameters

SpecParams == InitParams /\ [][NextParams]_vars

-----------------------------------------------------------------------------
(* The shutter mask on its own *)

PointInputs ==
    {Point(Float(x), Float(y), Float(z), Float(20), Float(s)) :
        x \in {1, 2}, y \in {3, 4}, z \in {5, 6}, s \in {0, 1}}

ShutterInputs == {0, 1, 2}

InitMask ==
    /\ InitIdle
    /\ param = NoParam
    /\ wgparam = NoWgParam
    /\ points \in SeqsUpTo(PointInputs, MaxPoints)
    /\ masked = NoMask

\* Cell._shutter_mask(points, shutter)
ShutterMask ==
    \E shutter \in ShutterInputs :
        LET r == shutter_mask(points, shutter)
        IN  /\ masked' = r
            /\ last' = Call("_shutter_mask", NoObj, <<shutter>>, r.err, <<>>, NoFiles)
            /\ UNCHANGED <<waveguides, markers, trenches, trench_cols, instructions,
                           total_dwell_time, filename, param, wgparam, points>>

NextMask == ShutterMask

SpecMask == InitMask /\ [][NextMask]_vars

-----------------------------------------------------------------------------
(* Claims about Cell.append, under SpecInsert *)

\* the types Cell.append is said to accept
Recognized(obj) ==
    \/ obj.kind \in {"Marker", "Waveguide", "Trench", "TrenchColumn"}
    \/ /\ obj.kind = "list"
       /\ \A i \in 1..Len(obj.elems) : obj.elems[i].kind = "Waveguide"

\* the collection a recognized value belongs in
Matching(obj) ==
    CASE obj.kind = "Marker" -> markers
      [] obj.kind \in {"Waveguide", "list"} -> waveguides
      [] obj.kind = "Trench" -> trenches
      [] obj.kind = "TrenchColumn" -> trench_cols
      [] OTHER -> <<>>

\* C1: an insertion that succeeds was handed a Marker, a Waveguide, a list of
\* Waveguides only, a Trench or a TrenchColumn, and the value is then the last
\* element of the matching collection; an insertion of any other value raises a
\* TypeError that names the type of the value handed in.
C1_AppendTypeCheck ==
    last.op = "append" =>
        /\ last.err = NoError =>
            /\ Recognized(last.obj)
            /\ Matching(last.obj) # <<>>
            /\ Matching(last.obj)[Len(Matching(last.obj))] = last.obj
        /\ ~Recognized(last.obj) => last.err = Error("TypeError", last.obj.kind, 0, 0)

\* C1 witness: after a Waveguide was accepted, a list mixing a Waveguide with a
\* number is rejected with a TypeError naming list
C1_Witness ==
    /\ last.op = "append"
    /\ last.obj = ListObj(<<Wg1, Num>>)
    /\ last.err = Error("TypeError", "list", 0, 0)
    /\ waveguides # <<>>

\* C10: an insertion that raises leaves the four collections as they were.
C10_FailedAppendChangesNothing ==
    [][(last'.op = "append" /\ last'.err # NoError)
         => UNCHANGED <<waveguides, markers, trenches, trench_cols>>]_vars

-----------------------------------------------------------------------------
(* Claims about Cell._shutter_mask, under SpecMask *)

\* C6: for shutter 0 or 1 the three returned sequences are as long as the point
\* array, x is the x column, and y and z are the y and z columns where the
\* point's shutter equals the argument and NaN elsewhere.
C6_ShutterMask ==
    (last.op = "_shutter_mask" /\ last.flags[1] \in {0, 1}) =>
        /\ masked.err = NoError
        /\ Len(masked.x) = Len(points)
        /\ Len(masked.y) = Len(points)
        /\ Len(masked.z) = Len(points)
        /\ \A i \in 1..Len(points) :
            /\ masked.x[i] = points[i][1]
            /\ points[i][5].v = last.flags[1] =>
                 masked.y[i] = points[i][2] /\ masked.z[i] = points[i][3]
            /\ points[i][5].v # last.flags[1] =>
                 masked.y[i] = NaN /\ masked.z[i] = NaN

\* C6 witness: a mask for the closed shutter over an open point and a closed one
C6_Witness ==
    /\ last.op = "_shutter_mask"
    /\ last.flags = <<0>>
    /\ Len(points) = 2
    /\ points[1][5] = Float(1)
    /\ points[2][5] = Float(0)
    /\ masked.y[1] = NaN
    /\ masked.y[2] = points[2][2]

-----------------------------------------------------------------------------
(* Claims about GcodeParameters, under SpecParams *)

\* C7 as stated: every configuration object that exists has a lab among
\* CAPABLE, DIAMOND and FIRE, with tshutter 0 for CAPABLE and 0.005 s for the
\* other two, and a construction with any other lab name raises.
C7_LabIsOneOfThree ==
    /\ param.made =>
        /\ param.lab \in {CAPABLE, DIAMOND, FIRE}
        /\ param.tshutter = IF param.lab = CAPABLE THEN 0 ELSE 5
    /\ (last.op = "GcodeParameters" /\ last.flags[1] \notin {CAPABLE, DIAMOND, FIRE})
         => last.err.type = "ValueError"

\* C7 amended: the lab name is compared in upper case.  Every configuration
\* object that exists has a lab whose upper-case form is CAPABLE, DIAMOND or
\* FIRE, with tshutter 0 for CAPABLE and 0.005 s for the other two, and a
\* construction with a lab name whose upper-case form is none of the three
\* raises a ValueError.
C7_LabUpperCaseIsOneOfThree ==
    /\ param.made =>
        /\ upper(param.lab) \in {CAPABLE, DIAMOND, FIRE}
        /\ param.tshutter = IF upper(param.lab) = CAPABLE THEN 0 ELSE 5
    /\ (last.op = "GcodeParameters" /\ upper(last.flags[1]) \notin {CAPABLE, DIAMOND, FIRE})
         => last.err.type = "ValueError"

\* C7 witness: the caller holds a configuration built for lab 'diamond', and a
\* construction for lab UDINE has just been refused
C7_Witness ==
    /\ param.made
    /\ param.lab = <<"d", "i", "a", "m", "o", "n", "d">>
    /\ param.tshutter = 5
    /\ last.op = "GcodeParameters"
    /\ last.flags[1] = <<"U", "D", "I", "N", "E">>
    /\ last.err = Error("ValueError", "lab", 0, 0)

-----------------------------------------------------------------------------
(* Claims about the compilation, under Spec *)

Depth(coll) == nest_level(ListObj(coll))

AllFlags == <<TRUE, TRUE, TRUE, TRUE>>

IsOp(ins, ops) == ins.op \in ops

IsMove(ins) == ins.op = "MOVE"

Count(text, ops) == Cardinality({i \in 1..Len(text) : IsOp(text[i], ops)})

\* the objects whose points a bunch contributes, one entry for each point
RECURSIVE ExpectedMoves(_)
ExpectedMoves(bunch) ==
    IF bunch = <<>> THEN <<>>
    ELSE [i \in 1..Len(path_points(Head(bunch))) |-> <<Head(bunch).kind, Head(bunch).scan>>]
           \o ExpectedMoves(Tail(bunch))

MovesOf(text) == [i \in 1..Len(SelectSeq(text, IsMove)) |-> SelectSeq(text, IsMove)[i].who]

\* text is HEADER, DWELL, one repeat block for each bunch of coll, HOME
WellFormed(text, coll) ==
    LET n      == Len(text)
        begins == {i \in 1..n : text[i].op = "REPEAT_BEGIN"}
        ends   == {i \in 1..n : text[i].op = "REPEAT_END"}
        End(b) == CHOOSE e \in ends : e > b /\ \A x \in ends : x > b => e <= x
    IN  /\ n >= 3
        /\ text[1].op = "HEADER" /\ Count(text, {"HEADER"}) = 1
        /\ text[2].op = "DWELL" /\ Count(text, {"DWELL"}) = 1
        /\ text[n].op = "HOME" /\ Count(text, {"HOME"}) = 1
        /\ Cardinality(begins) = Len(coll)
        /\ Cardinality(ends) = Len(coll)
        /\ \A b \in begins :
            /\ \E e \in ends : e > b
            /\ \A j \in (b + 1)..(End(b) - 1) : text[j].op \notin {"REPEAT_BEGIN", "REPEAT_END"}
            /\ LET k == Cardinality({x \in begins : x <= b})
               IN  MovesOf(SubSeq(text, b + 1, End(b) - 1)) = ExpectedMoves(listcast(coll[k]))
        /\ \A j \in 3..(n - 1) :
            \/ j \in begins \cup ends
            \/ \E b \in begins : b < j /\ \E e \in ends : e > j /\ End(b) = e

\* every bunch has a first object with a positive scan count
Compilable(coll) ==
    \A i \in 1..Len(coll) :
        /\ listcast(coll[i]) # <<>>
        /\ listcast(coll[i])[1].kind \in {"Waveguide", "Marker"}
        /\ listcast(coll[i])[1].scan.val >= 1

\* C2: pgm() on a waveguide collection deeper than 2 or a marker collection
\* deeper than 1 raises an error naming the depth and the limit, with no
\* instruction appended to the buffer and no file written; a waveguide
\* collection of depth 2 is compiled.
C2_DepthFailFast ==
    [][(last'.op = "pgm" /\ last'.flags = AllFlags) =>
         /\ (Depth(waveguides) > 2 \/ Depth(markers) > 1) =>
              /\ last'.err.type = "ValueError"
              /\ \/ last'.err = Error("ValueError", "waveguide", Depth(waveguides), 2)
                 \/ last'.err = Error("ValueError", "markers", Depth(markers), 1)
              /\ instructions' = instructions
              /\ last'.written["_WG.pgm"] = NoFile
              /\ last'.written["_MARKERS.pgm"] = NoFile
         /\ (Depth(waveguides) = 2 /\ Compilable(waveguides)) =>
              last'.written["_WG.pgm"].exists
       ]_vars

\* C3: a pgm() call that follows a pgm() call with the same flags writes the
\* same files with the same content.
C3_PgmIdempotent ==
    [][(last.op = "pgm" /\ last'.op = "pgm" /\ last'.flags = last.flags)
         => last'.written = last.written]_vars

\* C4: a written waveguide or marker program is one HEADER, one DWELL, one
\* repeat block for each bunch in insertion order holding the points of the
\* bunch's objects in order, and one HOME at the end; blocks are not nested.
C4_ProgramOrder ==
    /\ last.written["_WG.pgm"].exists => WellFormed(last.written["_WG.pgm"].text, waveguides)
    /\ last.written["_MARKERS.pgm"].exists =>
         WellFormed(last.written["_MARKERS.pgm"].text, markers)

\* the time a program of coll takes by its own instructions: the initial
\* dwell, and for each object its writing time and its two shutter changes
OwnTime(coll) ==
    1000 + Cardinality(UNION {{<<i, j>> : j \in 1..Len(listcast(coll[i]))} :
                                i \in 1..Len(coll)}) * (2000 + 2 * param.tshutter)

ReportedTime(what) ==
    {last.reported[i].time : i \in {j \in 1..Len(last.reported) : last.reported[j].what = what}}

\* what a program holds when its compile started with an empty buffer and a
\* dwell total of zero: one HEADER and one initial DWELL, moves of its own
\* class only, and a reported time that is the time of its own instructions
OwnOnly(file, coll, kind, what) ==
    file.exists =>
        /\ Count(file.text, {"HEADER"}) = 1
        /\ Count(file.text, {"DWELL"}) = 1
        /\ \A i \in 1..Len(file.text) :
               file.text[i].op = "MOVE" => file.text[i].who[1] = kind
        /\ ReportedTime(what) = {OwnTime(coll)}

\* C9: whatever calls came before, failed ones included, a program compile
\* starts with an empty instruction buffer and a dwell total of zero, so that
\* a written file and its reported time hold the class's own instructions and
\* durations only.
C9_ProgramsIndependent ==
    /\ OwnOnly(last.written["_WG.pgm"], waveguides, "Waveguide", "optical device")
    /\ OwnOnly(last.written["_MARKERS.pgm"], markers, "Marker", "markers")

HasReport(what) == \E i \in 1..Len(last'.reported) : last'.reported[i].what = what

\* C5: an empty waveguide (marker) collection makes _wg_pgm (_mk_pgm) return
\* without an error, without a file, and with the instruction buffer and the
\* dwell total as they were; pgm() then goes on to the other classes.
C5_EmptyClassSkipped ==
    [][/\ (last'.op = "_wg_pgm" /\ waveguides = <<>>) =>
            /\ last'.err = NoError
            /\ last'.written = NoFiles
            /\ UNCHANGED <<instructions, total_dwell_time>>
       /\ (last'.op = "_mk_pgm" /\ markers = <<>>) =>
            /\ last'.err = NoError
            /\ last'.written = NoFiles
            /\ UNCHANGED <<instructions, total_dwell_time>>
       /\ (last'.op = "pgm" /\ last'.flags = AllFlags /\ waveguides = <<>>) =>
            /\ last'.written["_WG.pgm"] = NoFile
            /\ last'.err.given # "waveguide"
            /\ (markers # <<>> /\ Depth(markers) = 1) =>
                 (last'.written["_MARKERS.pgm"].exists /\ HasReport("markers"))
            /\ Depth(markers) = 1 => HasReport("isolation trenches")
            /\ markers = <<>> => UNCHANGED <<instructions, total_dwell_time>>
       /\ (last'.op = "pgm" /\ last'.flags = AllFlags /\ markers = <<>>) =>
            /\ last'.written["_MARKERS.pgm"] = NoFile
            /\ last'.err.given # "markers"
            /\ (waveguides # <<>> /\ Depth(waveguides) <= 2 /\ Compilable(waveguides)) =>
                 /\ last'.written["_WG.pgm"].exists
                 /\ HasReport("optical device")
                 /\ HasReport("isolation trenches")
      ]_vars

\* C5 witness: pgm() has skipped the empty waveguide class and written the
\* marker program
C5_Witness ==
    /\ last.op = "pgm"
    /\ last.flags = AllFlags
    /\ waveguides = <<>>
    /\ markers # <<>>
    /\ last.err = NoError
    /\ last.written["_WG.pgm"] = NoFile
    /\ last.written["_MARKERS.pgm"].exists

RECURSIVE Leaves(_)
Leaves(seq) ==
    IF seq = <<>> THEN {}
    ELSE (IF Head(seq).kind = "list" THEN Leaves(Head(seq).elems) ELSE {Head(seq)})
           \cup Leaves(Tail(seq))

Texts == {instructions} \cup {last.written[s].text : s \in Suffixes}

====
